---- MODULE Spec2Model ----
(***************************************************************************)
(* Cost-Manager: the user and cost controllers of the expense-tracking     *)
(* backend, over the two MongoDB collections (User, Cost).                 *)
(*                                                                         *)
(* Every handler is an async function: it runs up to its next `await` in   *)
(* one step, and the store operation it awaits is atomic at the store.     *)
(* A handler with two store operations is therefore two steps, and         *)
(* handlers of other requests may run in between.                          *)
(***************************************************************************)
EXTENDS Integers, Sequences, FiniteSets, Bags, TLC

VARIABLES
    users,      \* the User collection: a set of documents
    costs,      \* the Cost collection: documents in natural (insertion) order
    now,        \* Date.now(), on the model's timeline
    inflight,   \* the handlers suspended at their second await: a bag of frames
    resp        \* the response the last step sent, until it is delivered

vars == <<users, costs, now, inflight, resp>>

-----------------------------------------------------------------------------
(* Bounds of the model *)

MaxCosts == 2       \* documents the Cost collection may hold
MaxTicks == 2       \* how far the clock advances from StartTime
NumProcs == 2       \* handlers that may be suspended at once
TicksPerDay == 2    \* resolution of the timeline (tick 0 of a day is 00:00:00.000)

-----------------------------------------------------------------------------
(* JavaScript values of a request: JSON bodies carry numbers and strings,  *)
(* a missing property is a key outside the body's DOMAIN. Strings that the *)
(* code inspects by character (trim, Number, isNaN) are character          *)
(* sequences.                                                              *)

Num(n) == [type |-> "number", value |-> n]
Str(s) == [type |-> "string", value |-> s]
Txt(cs) == [type |-> "string", text |-> cs]    \* a string given by its characters

Undefined == [type |-> "undefined"]

\* body[k]
Field(body, k) == IF k \in DOMAIN body THEN body[k] ELSE Undefined

IsText(v) == v.type = "string" /\ "text" \in DOMAIN v

\* !!v : undefined, 0 and "" are falsy
Truthy(v) ==
    /\ v.type # "undefined"
    /\ v.type = "number" => v.value # 0
    /\ v.type = "string" => IF IsText(v) THEN v.text # <<>> ELSE v.value # ""

Digits == <<"0", "1", "2", "3", "4", "5", "6", "7", "8", "9">>

IsDigit(c) == \E i \in 1..10 : Digits[i] = c

DigitValue(c) == (CHOOSE i \in 1..10 : Digits[i] = c) - 1

\* isNaN(s) for a query or path string s of digits and letters
isNaN(s) == \E i \in 1..Len(s) : ~IsDigit(s[i])

\* Number(s) for a string of digits ("" is 0)
RECURSIVE Number(_)
Number(s) ==
    IF s = <<>> THEN 0
    ELSE 10 * Number(SubSeq(s, 1, Len(s) - 1)) + DigitValue(s[Len(s)])

\* String(n) for a number n >= 0
RECURSIVE Numeral(_)
Numeral(n) ==
    IF n < 10 THEN <<Digits[n + 1]>>
    ELSE Numeral(n \div 10) \o <<Digits[(n % 10) + 1]>>

\* the white space trim() strips, as far as the requests here hold it
WhiteSpace == {" ", "\t", "\n"}

\* s.trim()
RECURSIVE TrimStart(_)
TrimStart(s) ==
    IF s # <<>> /\ Head(s) \in WhiteSpace THEN TrimStart(Tail(s)) ELSE s

RECURSIVE TrimEnd(_)
TrimEnd(s) ==
    IF s # <<>> /\ s[Len(s)] \in WhiteSpace
    THEN TrimEnd(SubSeq(s, 1, Len(s) - 1)) ELSE s

trim(s) == TrimEnd(TrimStart(s))

-----------------------------------------------------------------------------
(* The local calendar behind Date. An instant is a number of ticks since   *)
(* 00:00 of 1 January MinYear, local time: the first instant a report can  *)
(* cover.                                                                  *)

\* the earliest year getMonthlyReport accepts
MinYear == 2000

IsLeap(y) == (y % 4 = 0 /\ y % 100 # 0) \/ y % 400 = 0

DaysInYear(y) == IF IsLeap(y) THEN 366 ELSE 365

DaysInMonth(y, m) ==
    IF m = 2 THEN (IF IsLeap(y) THEN 29 ELSE 28)
    ELSE IF m \in {4, 6, 9, 11} THEN 30 ELSE 31

\* the leap years before year y
LeapsBefore(y) == ((y - 1) \div 4) - ((y - 1) \div 100) + ((y - 1) \div 400)

\* the days from 1 January MinYear to 1 January y
DaysBeforeYear(y) == 365 * (y - MinYear) + LeapsBefore(y) - LeapsBefore(MinYear)

RECURSIVE DaysBeforeMonth(_, _)
DaysBeforeMonth(y, m) ==
    IF m <= 1 THEN 0 ELSE DaysBeforeMonth(y, m - 1) + DaysInMonth(y, m - 1)

\* new Date(year, monthIndex, day): monthIndex 12 is January of the next
\* year, day 0 is the last day of the month before; the time is 00:00:00.000
NewDate(year, monthIndex, day) ==
    LET y == year + (monthIndex \div 12)
        m == (monthIndex % 12) + 1
    IN  (DaysBeforeYear(y) + DaysBeforeMonth(y, m) + (day - 1)) * TicksPerDay

DayNumber(t) == t \div TicksPerDay

\* date.getFullYear()
getFullYear(t) ==
    LET low == MinYear + (DayNumber(t) \div 366)
    IN  CHOOSE y \in low..(low + 1) :
            /\ DaysBeforeYear(y) <= DayNumber(t)
            /\ DayNumber(t) < DaysBeforeYear(y + 1)

\* date.getMonth() + 1
MonthOf(t) ==
    LET y == getFullYear(t)
        d == DayNumber(t) - DaysBeforeYear(y)
    IN  CHOOSE m \in 1..12 :
            /\ DaysBeforeMonth(y, m) <= d
            /\ d < DaysBeforeMonth(y, m) + DaysInMonth(y, m)

\* date.getDate()
getDate(t) ==
    LET y == getFullYear(t)
    IN  DayNumber(t) - DaysBeforeYear(y) - DaysBeforeMonth(y, MonthOf(t)) + 1

\* the instant `tick` ticks into day d of month m (1-12) of year y
At(y, m, d, tick) == NewDate(y, m - 1, d) + tick

\* the clock starts at 00:00 of the last day of a month
StartTime == At(2024, 2, 29, 0)

-----------------------------------------------------------------------------
(* The store. ObjectIds are positive numbers, numbered per collection (the *)
(* code never compares ObjectIds of different collections); a new document *)
(* gets an ObjectId that names no document and is held by no handler.      *)

NoResp == [op |-> "none", status |-> 0]

CostIndex == 1..Len(costs)

Frames == BagToSet(inflight)

\* the least ObjectId outside `used`
NewOid(used) == CHOOSE n \in 1..(Cardinality(used) + 1) :
                    n \notin used /\ \A k \in 1..(n - 1) : k \in used

UserOids ==
    {u._id : u \in users} \cup {costs[i].user : i \in CostIndex}
        \cup {f.user._id : f \in {g \in Frames : "user" \in DOMAIN g}}

CostOids == {costs[i]._id : i \in CostIndex}

\* a partial update of a document: the paths of the schema that updateData
\* names are set, every other path keeps its value
Merge(doc, updateData) ==
    [k \in DOMAIN doc |-> IF k \in DOMAIN updateData THEN updateData[k] ELSE doc[k]]

Reply(op, status, body) == [op |-> op, status |-> status, body |-> body]

\* the handler awaits its next store operation
Suspend(frame) ==
    /\ BagCardinality(inflight) < NumProcs
    /\ inflight' = inflight (+) SetToBag({frame})

\* the store operation a suspended handler awaits is done
Resume(frame) == inflight' = inflight (-) SetToBag({frame})

\* no response is waiting to be delivered
Ready == resp = NoResp

-----------------------------------------------------------------------------
(* User controller *)

UserIds == {1, 2}

Birthday == "1990-01-01"

UserBody(id, first) ==
    [id |-> Num(id), first_name |-> Str(first), last_name |-> Str("B"),
     birthday |-> Str(Birthday), marital_status |-> Str("single")]

\* the bodies of POST /api/users
AddUserBodies ==
    {UserBody(1, "A"), UserBody(2, "A"), UserBody(1, "C"),
     [id |-> Num(1), first_name |-> Str("A"), last_name |-> Str("B"),
      birthday |-> Str(Birthday)]}

\* the bodies of PUT /api/users/:id
UpdateUserBodies == {[first_name |-> "C"], [id |-> 2]}

\* the :id of a path
IdParams == {<<"1">>, <<"2">>, <<"x">>}

\* User.findOne({ id }): the documents matching the filter
UsersWithId(id) == {u \in users : u.id = id}

\* new User(userData): the document the schema casts the body to
NewUser(userData, oid) ==
    [_id |-> oid, id |-> userData.id.value, first_name |-> userData.first_name.value,
     last_name |-> userData.last_name.value, birthday |-> userData.birthday.value,
     marital_status |-> userData.marital_status.value]

\* the unique index on User.id rejects a write that leaves two documents
\* with one id
UniqueIdViolated(us) == \E u, v \in us : u # v /\ u.id = v.id

\* addUser writing over the document that holds the id
addUser_Overwrite(body) ==
    /\ Ready
    /\ IF \E k \in {"id", "first_name", "last_name", "birthday", "marital_status"} :
              ~Truthy(Field(body, k))
       THEN /\ resp' = Reply("addUser", 400, [error |-> "All fields are required."])
            /\ UNCHANGED <<users, inflight>>
       ELSE IF UsersWithId(body.id.value) # {}
       THEN LET user == CHOOSE u \in UsersWithId(body.id.value) : TRUE
                savedUser == NewUser(body, user._id)
            IN  /\ users' = (users \ {user}) \cup {savedUser}
                /\ resp' = Reply("addUser", 201, savedUser)
                /\ UNCHANGED inflight
       ELSE /\ Suspend([pc |-> "createUser.save", userData |-> body])
            /\ resp' = NoResp
            /\ UNCHANGED users
    /\ UNCHANGED <<costs, now>>

\* addUser: the required-fields check, then createUser up to its findOne
addUser(body) ==
    /\ Ready
    /\ IF \E k \in {"id", "first_name", "last_name", "birthday", "marital_status"} :
              ~Truthy(Field(body, k))
       THEN /\ resp' = Reply("addUser", 400, [error |-> "All fields are required."])
            /\ UNCHANGED inflight
       ELSE IF UsersWithId(body.id.value) # {}
       THEN /\ resp' = Reply("addUser", 400, [error |-> "User ID already exists."])
            /\ UNCHANGED inflight
       ELSE /\ Suspend([pc |-> "createUser.save", userData |-> body])
            /\ resp' = NoResp
    /\ UNCHANGED <<users, costs, now>>

\* newUser.save() and the rest of createUser, on the collection us: the
\* collection it leaves and the result it returns
saveUser(us, userData, oid) ==
    LET savedUser == NewUser(userData, oid)
    IN  IF UniqueIdViolated(us \cup {savedUser})
        THEN [users |-> us, status |-> 500,
              body |-> [error |-> "E11000 duplicate key error"]]
        ELSE [users |-> us \cup {savedUser}, status |-> 201, body |-> savedUser]

\* createUser from newUser.save() on
createUserSave(frame) ==
    /\ Ready
    /\ frame.pc = "createUser.save"
    /\ LET result == saveUser(users, frame.userData, NewOid(UserOids))
       IN  /\ users' = result.users
           /\ resp' = Reply("addUser", result.status, result.body)
    /\ Resume(frame)
    /\ UNCHANGED <<costs, now>>

\* User.findOneAndUpdate({ id: userId }, updateData, { new: true }) and the
\* rest of updateUser, on the collection us
findOneAndUpdate(us, userId, updateData) ==
    LET matching == {u \in us : u.id = userId}
    IN  IF matching = {}
        THEN [users |-> us, status |-> 404, body |-> [error |-> "User not found."]]
        ELSE LET user == CHOOSE u \in matching : TRUE
                 updatedUser == Merge(user, updateData)
                 written == (us \ {user}) \cup {updatedUser}
             IN  IF UniqueIdViolated(written)
                 THEN [users |-> us, status |-> 500,
                       body |-> [error |-> "E11000 duplicate key error"]]
                 ELSE [users |-> written, status |-> 200, body |-> updatedUser]

updateUser(userId, updateData) ==
    LET result == findOneAndUpdate(users, userId, updateData)
    IN  /\ users' = result.users
        /\ resp' = Reply("editUser", result.status, result.body)

editUser(userId, updateData) ==
    /\ Ready
    /\ IF userId = <<>> \/ isNaN(userId)
       THEN /\ resp' = Reply("editUser", 400, [error |-> "Valid user ID is required."])
            /\ UNCHANGED users
       ELSE updateUser(Number(userId), updateData)
    /\ UNCHANGED <<costs, now, inflight>>

\* User.findOneAndDelete({ id: userId }) and the rest of deleteUser, on the
\* collection us
findOneAndDelete(us, userId) ==
    LET matching == {u \in us : u.id = userId}
    IN  IF matching = {}
        THEN [users |-> us, status |-> 404, body |-> [error |-> "User not found."]]
        ELSE [users |-> us \ {CHOOSE u \in matching : TRUE}, status |-> 200,
              body |-> [message |-> "User deleted successfully."]]

deleteUser(userId) ==
    LET result == findOneAndDelete(users, userId)
    IN  /\ users' = result.users
        /\ resp' = Reply("removeUser", result.status, result.body)

\* removeUser deleting the user's expenses with the user
removeUser_Cascade(userId) ==
    /\ Ready
    /\ IF userId = <<>> \/ isNaN(userId)
       THEN /\ resp' = Reply("removeUser", 400, [error |-> "Valid user ID is required."])
            /\ UNCHANGED <<users, costs>>
       ELSE /\ deleteUser(Number(userId))
            /\ costs' = IF UsersWithId(Number(userId)) = {} THEN costs
                        ELSE SelectSeq(costs, LAMBDA c : c.userid # Number(userId))
    /\ UNCHANGED <<now, inflight>>

removeUser(userId) ==
    /\ Ready
    /\ IF userId = <<>> \/ isNaN(userId)
       THEN /\ resp' = Reply("removeUser", 400, [error |-> "Valid user ID is required."])
            /\ UNCHANGED users
       ELSE deleteUser(Number(userId))
    /\ UNCHANGED <<costs, now, inflight>>

\* { $group: { _id: null, total: { $sum: "$sum" } } } over the documents cs
RECURSIVE SumOf(_)
SumOf(cs) == IF cs = <<>> THEN 0 ELSE Head(cs).sum + SumOf(Tail(cs))

\* the aggregation without its $match stage
aggregateTotal_NoMatch(userid) ==
    IF costs = <<>> THEN <<>> ELSE <<[_id |-> "null", total |-> SumOf(costs)]>>

\* Cost.aggregate([{ $match: { userid } }, { $group: ... }]): one group, or
\* none when no document matches
aggregateTotal(userid) ==
    LET matched == SelectSeq(costs, LAMBDA c : c.userid = userid)
    IN  IF matched = <<>> THEN <<>> ELSE <<[_id |-> "null", total |-> SumOf(matched)]>>

\* getUserDetails: the id check, then fetchUserDetails up to its findOne
getUserDetails(userId) ==
    /\ Ready
    /\ IF userId = <<>> \/ isNaN(userId)
       THEN /\ resp' = Reply("getUserDetails", 400, [error |-> "Valid user ID is required."])
            /\ UNCHANGED inflight
       ELSE IF UsersWithId(Number(userId)) = {}
       THEN /\ resp' = Reply("getUserDetails", 404, [error |-> "User not found"])
            /\ UNCHANGED inflight
       ELSE /\ Suspend([pc |-> "fetchUserDetails.aggregate",
                        user |-> CHOOSE u \in UsersWithId(Number(userId)) : TRUE])
            /\ resp' = NoResp
    /\ UNCHANGED <<users, costs, now>>

\* fetchUserDetails from Cost.aggregate on
fetchUserDetailsAggregate(frame) ==
    /\ Ready
    /\ frame.pc = "fetchUserDetails.aggregate"
    /\ LET user == frame.user
           totalCostResult == aggregateTotal(user.id)
           totalCost == IF Len(totalCostResult) > 0 THEN totalCostResult[1].total ELSE 0
       IN  resp' = Reply("getUserDetails", 200,
                         [first_name |-> user.first_name, last_name |-> user.last_name,
                          id |-> user.id, total |-> totalCost])
    /\ Resume(frame)
    /\ UNCHANGED <<users, costs, now>>

-----------------------------------------------------------------------------
(* Cost controller *)

Milk == <<"m", "i", "l", "k">>
Gym == <<"g", "y", "m">>

allowedCategories == <<"food", "health", "housing", "sport", "education">>

\* list.includes(v)
includes(list, v) ==
    v.type = "string" /\ ~IsText(v) /\ \E i \in 1..Len(list) : list[i] = v.value

\* validateCostInput testing sum before the other fields
validateCostInput_SumFirst(description, category, userid, sum) ==
    IF ~Truthy(sum) \/ sum.type # "number" \/ sum.value <= 0
    THEN "Sum must be a positive number."
    ELSE IF ~Truthy(description) \/ description.type # "string" \/ trim(description.text) = <<>>
    THEN "Description is required and must be a string."
    ELSE IF ~includes(allowedCategories, category)
    THEN "Category must be one of: food, health, housing, sport, education."
    ELSE IF ~Truthy(userid) \/ userid.type # "number" \/ userid.value <= 0
    THEN "User ID must be a positive number."
    ELSE "null"

validateCostInput(description, category, userid, sum) ==
    IF ~Truthy(description) \/ description.type # "string" \/ trim(description.text) = <<>>
    THEN "Description is required and must be a string."
    ELSE IF ~includes(allowedCategories, category)
    THEN "Category must be one of: food, health, housing, sport, education."
    ELSE IF ~Truthy(userid) \/ userid.type # "number" \/ userid.value <= 0
    THEN "User ID must be a positive number."
    ELSE IF ~Truthy(sum) \/ sum.type # "number" \/ sum.value <= 0
    THEN "Sum must be a positive number."
    ELSE "null"

CostBody(description, category, userid, sum) ==
    [description |-> description, category |-> category, userid |-> userid, sum |-> sum]

WithDate(body, date) ==
    [k \in DOMAIN body \cup {"date"} |-> IF k = "date" THEN date ELSE body[k]]

\* a date is sent as the number of its instant; a string that is no date
\* does not cast to a Date
ValidCostBodies ==
    {CostBody(Txt(Milk), Str("food"), Num(1), Num(8)),
     CostBody(Txt(Milk), Str("food"), Num(999999), Num(8)),
     WithDate(CostBody(Txt(Gym), Str("sport"), Num(2), Num(3)), Num(At(2024, 3, 1, 1))),
     WithDate(CostBody(Txt(Gym), Str("sport"), Num(2), Num(3)), Str("not-a-date"))}

InvalidCostBodies ==
    {CostBody(Txt(Milk), Str("food"), Num(1), Num(0)),
     CostBody(Txt(Milk), Str("food"), Num(1), Num(-5)),
     CostBody(Txt(Milk), Str("travel"), Num(1), Num(8)),
     CostBody(Txt(<<>>), Str("food"), Num(1), Num(8)),
     CostBody(Txt(<<" ", " ">>), Str("travel"), Num(0), Num(0)),
     CostBody(Txt(Milk), Str("food"), Str("1"), Num(0)),
     CostBody(Txt(Milk), Str("food"), Num(999999), Num(0)),
     [description |-> Txt(Milk), category |-> Str("food"), userid |-> Num(1)]}

\* the bodies of POST /api/add
AddCostBodies == ValidCostBodies \cup InvalidCostBodies

\* the bodies of PUT /api/:id
UpdateCostBodies == {[category |-> "travel", sum |-> 5]}

\* the :id of a cost path: an ObjectId string, or 0 for a string that is none
CostIdParams == 0..MaxCosts

CastsToDate(v) == v.type = "number"

\* addCost looking the owning user up before it validates the fields
addCost_LookupFirst(body) ==
    /\ Ready
    /\ LET validationError ==
               validateCostInput(Field(body, "description"), Field(body, "category"),
                                 Field(body, "userid"), Field(body, "sum"))
           userid == Field(body, "userid")
           found == IF userid.type = "number" THEN UsersWithId(userid.value) ELSE {}
       IN  IF found = {}
           THEN /\ resp' = Reply("addCost", 404,
                                 [error |-> "User not found. Cannot add cost."])
                /\ UNCHANGED inflight
           ELSE IF validationError # "null"
           THEN /\ resp' = Reply("addCost", 400, [error |-> validationError])
                /\ UNCHANGED inflight
           ELSE /\ Suspend([pc |-> "createCost.save", costData |-> body,
                            user |-> CHOOSE u \in found : TRUE])
                /\ resp' = NoResp
    /\ UNCHANGED <<users, costs, now>>

\* addCost without the lookup of the owning user
addCost_NoLookup(body) ==
    /\ Ready
    /\ LET validationError ==
               validateCostInput(Field(body, "description"), Field(body, "category"),
                                 Field(body, "userid"), Field(body, "sum"))
       IN  IF validationError # "null"
           THEN /\ resp' = Reply("addCost", 400, [error |-> validationError])
                /\ UNCHANGED inflight
           ELSE /\ Suspend([pc |-> "createCost.save", costData |-> body,
                            user |-> [_id |-> 1]])
                /\ resp' = NoResp
    /\ UNCHANGED <<users, costs, now>>

\* addCost: validateCostInput, then createCost up to its findOne
addCost(body) ==
    /\ Ready
    /\ LET validationError ==
               validateCostInput(Field(body, "description"), Field(body, "category"),
                                 Field(body, "userid"), Field(body, "sum"))
       IN  IF validationError # "null"
           THEN /\ resp' = Reply("addCost", 400, [error |-> validationError])
                /\ UNCHANGED inflight
           ELSE IF UsersWithId(body.userid.value) = {}
           THEN /\ resp' = Reply("addCost", 404,
                                 [error |-> "User not found. Cannot add cost."])
                /\ UNCHANGED inflight
           ELSE /\ Suspend([pc |-> "createCost.save", costData |-> body,
                            user |-> CHOOSE u \in UsersWithId(body.userid.value) : TRUE])
                /\ resp' = NoResp
    /\ UNCHANGED <<users, costs, now>>

\* new Cost({ description, category, userid, user: user._id, sum,
\* date: date || Date.now() })
NewCost(costData, user, oid) ==
    [_id |-> oid, description |-> costData.description.text,
     category |-> costData.category.value, userid |-> costData.userid.value,
     user |-> user._id, sum |-> costData.sum.value,
     date |-> IF Truthy(Field(costData, "date")) THEN costData.date.value ELSE now]

\* createCost looking the user up once more before it saves
createCostSave_Guarded(frame) ==
    /\ Ready
    /\ frame.pc = "createCost.save"
    /\ Len(costs) < MaxCosts
    /\ LET date == Field(frame.costData, "date")
       IN  IF UsersWithId(frame.costData.userid.value) = {}
           THEN /\ resp' = Reply("addCost", 404,
                                 [error |-> "User not found. Cannot add cost."])
                /\ UNCHANGED costs
           ELSE IF Truthy(date) /\ ~CastsToDate(date)
           THEN /\ resp' = Reply("addCost", 500,
                        [error |-> "Cost validation failed: date: Cast to date failed"])
                /\ UNCHANGED costs
           ELSE LET savedCost == NewCost(frame.costData, frame.user, NewOid(CostOids))
                IN  /\ costs' = Append(costs, savedCost)
                    /\ resp' = Reply("addCost", 201,
                                     [description |-> savedCost.description,
                                      category |-> savedCost.category,
                                      userid |-> savedCost.userid,
                                      sum |-> savedCost.sum,
                                      date |-> savedCost.date])
    /\ Resume(frame)
    /\ UNCHANGED <<users, now>>

\* createCost from new Cost(...) and newCost.save() on
createCostSave(frame) ==
    /\ Ready
    /\ frame.pc = "createCost.save"
    /\ Len(costs) < MaxCosts
    /\ LET date == Field(frame.costData, "date")
       IN  IF Truthy(date) /\ ~CastsToDate(date)
           THEN /\ resp' = Reply("addCost", 500,
                        [error |-> "Cost validation failed: date: Cast to date failed"])
                /\ UNCHANGED costs
           ELSE LET savedCost == NewCost(frame.costData, frame.user, NewOid(CostOids))
                IN  /\ costs' = Append(costs, savedCost)
                    /\ resp' = Reply("addCost", 201,
                                     [description |-> savedCost.description,
                                      category |-> savedCost.category,
                                      userid |-> savedCost.userid,
                                      sum |-> savedCost.sum,
                                      date |-> savedCost.date])
    /\ Resume(frame)
    /\ UNCHANGED <<users, now>>

\* Cost.findByIdAndUpdate(costId, updateData, { new: true })
findByIdAndUpdate(cs, costId, updateData) ==
    IF costId = 0
    THEN [costs |-> cs, status |-> 500, body |-> [error |-> "Cast to ObjectId failed"]]
    ELSE IF \A i \in 1..Len(cs) : cs[i]._id # costId
    THEN [costs |-> cs, status |-> 404, body |-> [error |-> "Cost not found."]]
    ELSE LET i == CHOOSE j \in 1..Len(cs) : cs[j]._id = costId
             updatedCost == Merge(cs[i], updateData)
         IN  [costs |-> [cs EXCEPT ![i] = updatedCost], status |-> 200,
              body |-> updatedCost]

\* updateCost, on the Cost collection
updateCost(costId, updateData) ==
    LET result == findByIdAndUpdate(costs, costId, updateData)
    IN  /\ costs' = result.costs
        /\ resp' = Reply("editCost", result.status, result.body)

editCost(costId, updateData) ==
    /\ Ready
    /\ updateCost(costId, updateData)
    /\ UNCHANGED <<users, now, inflight>>

\* Cost.findByIdAndDelete(costId)
findByIdAndDelete(cs, costId) ==
    IF costId = 0
    THEN [costs |-> cs, status |-> 500, body |-> [error |-> "Cast to ObjectId failed"]]
    ELSE IF \A i \in 1..Len(cs) : cs[i]._id # costId
    THEN [costs |-> cs, status |-> 404, body |-> [error |-> "Cost not found."]]
    ELSE [costs |-> SelectSeq(cs, LAMBDA c : c._id # costId), status |-> 200,
          body |-> [message |-> "Cost deleted successfully."]]

\* deleteCost, on the Cost collection
deleteCost(costId) ==
    LET result == findByIdAndDelete(costs, costId)
    IN  /\ costs' = result.costs
        /\ resp' = Reply("removeCost", result.status, result.body)

removeCost(costId) ==
    /\ Ready
    /\ deleteCost(costId)
    /\ UNCHANGED <<users, now, inflight>>

-----------------------------------------------------------------------------
(* Monthly report *)

\* Cost.find({ userid, date: { $gte: startDate, $lte: endDate } }) over the
\* collection cs
findCosts(cs, userid, startDate, endDate) ==
    SelectSeq(cs, LAMBDA c : c.userid = userid /\ c.date >= startDate /\ c.date <= endDate)

\* categories.forEach(category => { groupedCosts[category] = [] }): the
\* object's keys in insertion order, and the list under each key
emptyGroups(categories) ==
    [keys |-> categories,
     lists |-> [k \in {categories[i] : i \in 1..Len(categories)} |-> <<>>],
     threw |-> FALSE]

\* the forEach putting every entry at the head of its list
RECURSIVE pushAll_Unshift(_, _)
pushAll_Unshift(groupedCosts, found) ==
    IF found = <<>> \/ groupedCosts.threw THEN groupedCosts
    ELSE LET cost == Head(found)
             entry == [sum |-> cost.sum, description |-> cost.description,
                       day |-> getDate(cost.date)]
         IN  IF cost.category \notin DOMAIN groupedCosts.lists
             THEN [groupedCosts EXCEPT !.threw = TRUE]
             ELSE pushAll_Unshift(
                      [groupedCosts EXCEPT !.lists[cost.category] = <<entry>> \o @],
                      Tail(found))

\* costs.forEach(cost => groupedCosts[cost.category].push({ ... })): a
\* category that is no key of groupedCosts has no list to push to, and the
\* push throws a TypeError
RECURSIVE pushAll(_, _)
pushAll(groupedCosts, found) ==
    IF found = <<>> \/ groupedCosts.threw THEN groupedCosts
    ELSE LET cost == Head(found)
             entry == [sum |-> cost.sum, description |-> cost.description,
                       day |-> getDate(cost.date)]
         IN  IF cost.category \notin DOMAIN groupedCosts.lists
             THEN [groupedCosts EXCEPT !.threw = TRUE]
             ELSE pushAll([groupedCosts EXCEPT !.lists[cost.category] = Append(@, entry)],
                          Tail(found))

\* the map that leaves out the categories without an entry
keyedLists_SkipEmpty(groupedCosts) ==
    LET kept == SelectSeq(groupedCosts.keys, LAMBDA k : groupedCosts.lists[k] # <<>>)
    IN  [i \in 1..Len(kept) |-> (kept[i] :> groupedCosts.lists[kept[i]])]

\* Object.keys(groupedCosts).map(category => ({ [category]: groupedCosts[category] }))
keyedLists(groupedCosts) ==
    [i \in 1..Len(groupedCosts.keys) |->
        (groupedCosts.keys[i] :> groupedCosts.lists[groupedCosts.keys[i]])]

categories == <<"food", "health", "housing", "sport", "education">>

\* the result of fetchMonthlyReport(id, year, month) on the collection cs;
\* id, year and month are the strings of the query
fetchMonthlyReport(cs, id, year, month) ==
    LET startDate == NewDate(Number(year), Number(month) - 1, 1)
        endDate == NewDate(Number(year), Number(month), 0)
        found == findCosts(cs, Number(id), startDate, endDate)
        groupedCosts == pushAll(emptyGroups(categories), found)
    IN  IF groupedCosts.threw
        THEN [status |-> 500,
              body |-> [error |-> "Cannot read properties of undefined (reading 'push')"]]
        ELSE [status |-> 200,
              body |-> [userid |-> Number(id), year |-> Number(year),
                        month |-> Number(month), costs |-> keyedLists(groupedCosts)]]

Y1999 == <<"1", "9", "9", "9">>
Y2023 == <<"2", "0", "2", "3">>
Y2024 == <<"2", "0", "2", "4">>
Y2025 == <<"2", "0", "2", "5">>

\* the queries of GET /api/report: <<id, year, month>>
ReportQueries ==
    {<<id, Y2024, m>> : id \in {<<"1">>, <<"2">>}, m \in {<<"2">>, <<"3">>}}
        \cup {<<<<"1">>, Y2023, <<"1", "2">>>>, <<<<"x">>, Y2024, <<"2">>>>,
              <<<<"1">>, Y1999, <<"2">>>>, <<<<"1">>, Y2025, <<"2">>>>,
              <<<<"1">>, Y2024, <<"1", "3">>>>, <<<<"1">>, Y2024, <<>>>>}

\* the response of getMonthlyReport(req, res), on the collection cs at the
\* instant t
monthlyReportReply(cs, t, id, year, month) ==
    IF id = <<>> \/ isNaN(id)
    THEN Reply("getMonthlyReport", 400, [error |-> "Valid user ID is required."])
    ELSE IF \/ year = <<>> \/ isNaN(year)
            \/ Number(year) < MinYear \/ Number(year) > getFullYear(t)
    THEN Reply("getMonthlyReport", 400, [error |-> "Valid year is required."])
    ELSE IF month = <<>> \/ isNaN(month) \/ Number(month) < 1 \/ Number(month) > 12
    THEN Reply("getMonthlyReport", 400, [error |-> "Month must be between 1 and 12."])
    ELSE LET result == fetchMonthlyReport(cs, id, year, month)
         IN  Reply("getMonthlyReport", result.status, result.body)

getMonthlyReport(id, year, month) ==
    /\ Ready
    /\ resp' = monthlyReportReply(costs, now, id, year, month)
    /\ UNCHANGED <<users, costs, now, inflight>>

fetchDevelopers ==
    [status |-> 200,
     data |-> <<[first_name |-> "Noy", last_name |-> "Atedgi"],
                [first_name |-> "Coral", last_name |-> "Shahaff"]>>]

getDevelopers ==
    /\ Ready
    /\ resp' = Reply("getDevelopers", fetchDevelopers.status, fetchDevelopers.data)
    /\ UNCHANGED <<users, costs, now, inflight>>

-----------------------------------------------------------------------------
(* The system *)

\* the response of the last step reaches its caller
Respond ==
    /\ resp # NoResp
    /\ resp' = NoResp
    /\ UNCHANGED <<users, costs, now, inflight>>

\* time passes
Tick ==
    /\ Ready
    /\ now < StartTime + MaxTicks
    /\ now' = now + 1
    /\ UNCHANGED <<users, costs, inflight, resp>>

\* the state after construction: both collections are empty
Init ==
    /\ users = {}
    /\ costs = <<>>
    /\ now = StartTime
    /\ inflight = EmptyBag
    /\ resp = NoResp

PostUsers == \E body \in AddUserBodies : addUser(body)
SaveUser == \E frame \in Frames : createUserSave(frame)
PutUser == \E userId \in IdParams, updateData \in UpdateUserBodies : editUser(userId, updateData)
DeleteUser == \E userId \in IdParams : removeUser(userId)
GetUser == \E userId \in IdParams : getUserDetails(userId)
AggregateUser == \E frame \in Frames : fetchUserDetailsAggregate(frame)
PostAdd == \E body \in AddCostBodies : addCost(body)
SaveCost == \E frame \in Frames : createCostSave(frame)
PutCost == \E costId \in CostIdParams, updateData \in UpdateCostBodies : editCost(costId, updateData)
DeleteCost == \E costId \in CostIdParams : removeCost(costId)
GetReport == \E q \in ReportQueries : getMonthlyReport(q[1], q[2], q[3])

\* the whole server
Next ==
    \/ PostUsers
    \/ SaveUser
    \/ PutUser
    \/ DeleteUser
    \/ GetUser
    \/ AggregateUser
    \/ PostAdd
    \/ SaveCost
    \/ PutCost
    \/ DeleteCost
    \/ GetReport
    \/ getDevelopers
    \/ Respond
    \/ Tick

Spec == Init /\ [][Next]_vars

\* The user controller alone, from the empty store. No handler outside it
\* writes the User collection.
NextUsers ==
    \/ PostUsers
    \/ SaveUser
    \/ PutUser
    \/ DeleteUser
    \/ GetUser
    \/ AggregateUser
    \/ Respond

SpecUsers == Init /\ [][NextUsers]_vars

\* The cost controller and the handlers that read the Cost collection, from
\* the state in which POST /api/users has created the users 1 and 2; users
\* are deleted, and not created again.
TwoUsers == {NewUser(UserBody(1, "A"), 1), NewUser(UserBody(2, "A"), 2)}

InitCosts ==
    /\ users = TwoUsers
    /\ costs = <<>>
    /\ now = StartTime
    /\ inflight = EmptyBag
    /\ resp = NoResp

NextCosts ==
    \/ DeleteUser
    \/ GetUser
    \/ AggregateUser
    \/ PostAdd
    \/ SaveCost
    \/ PutCost
    \/ DeleteCost
    \/ GetReport
    \/ getDevelopers
    \/ Respond
    \/ Tick

SpecCosts == InitCosts /\ [][NextCosts]_vars

\* The monthly report alone, on the collections that POST /api/add with a
\* date and PUT /api/:id can leave: expenses of both users, on the first
\* day, inside, at the start of and during the last day of February 2024,
\* in the months around it, and one with a category set by an update.
StoredCost(description, category, userid, sum, date) ==
    [_id |-> 0, user |-> userid, description |-> description, category |-> category,
     userid |-> userid, sum |-> sum, date |-> date]

CostDocs ==
    <<StoredCost(Milk, "food", 1, 8, At(2024, 2, 1, 0)),
      StoredCost(Gym, "food", 1, 3, At(2024, 2, 15, 1)),
      StoredCost(Gym, "sport", 1, 3, At(2024, 2, 29, 0)),
      StoredCost(Milk, "food", 1, 8, At(2024, 2, 29, 1)),
      StoredCost(Milk, "food", 1, 5, At(2024, 1, 31, 1)),
      StoredCost(Milk, "health", 1, 8, At(2024, 3, 1, 0)),
      StoredCost(Milk, "food", 2, 8, At(2024, 2, 15, 1)),
      StoredCost(Gym, "travel", 1, 5, At(2024, 2, 15, 1))>>

InitReport ==
    /\ users = TwoUsers
    /\ \E n \in 0..MaxCosts : \E f \in [1..n -> 1..Len(CostDocs)] :
           costs = [i \in 1..n |-> [CostDocs[f[i]] EXCEPT !._id = i]]
    /\ now = StartTime
    /\ inflight = EmptyBag
    /\ resp = NoResp

NextReport ==
    \/ GetReport
    \/ Respond

SpecReport == InitReport /\ [][NextReport]_vars

\* validateCostInput alone, on the values a JSON body can give each field
Descriptions ==
    {Txt(Milk), Txt(<<" ", "a", " ">>), Txt(<<>>), Txt(<<" ", " ">>), Txt(<<"\t", "\n">>),
     Num(5), Num(0), Undefined}

Categories ==
    {Str("food"), Str("education"), Str("travel"), Str("Food"), Str(""), Num(1), Undefined}

UserIdValues == {Num(1), Num(999999), Num(0), Num(-1), Str("1"), Undefined}

SumValues == {Num(8), Num(0), Num(-5), Str("8"), Undefined}

\* const validationError = validateCostInput(description, category, userid, sum)
Validate ==
    /\ Ready
    /\ \E description \in Descriptions, category \in Categories,
          userid \in UserIdValues, sum \in SumValues :
            resp' = [op |-> "validateCostInput", status |-> 0,
                     description |-> description, category |-> category,
                     userid |-> userid, sum |-> sum,
                     validationError |->
                         validateCostInput(description, category, userid, sum)]
    /\ UNCHANGED <<users, costs, now, inflight>>

NextValidate ==
    \/ Validate
    \/ Respond

SpecValidate == Init /\ [][NextValidate]_vars

-----------------------------------------------------------------------------
(* Properties *)

NotFoundReply == Reply("addCost", 404, [error |-> "User not found. Cannot add cost."])

ConflictReply == Reply("addUser", 400, [error |-> "User ID already exists."])

PassesValidation(body) ==
    validateCostInput(Field(body, "description"), Field(body, "category"),
                      Field(body, "userid"), Field(body, "sum")) = "null"

AllFieldsGiven(body) ==
    \A k \in {"id", "first_name", "last_name", "birthday", "marital_status"} :
        Truthy(Field(body, k))

\* C1: a create-expense whose userId resolves to no User at the existence
\* check is answered 404 "User not found. Cannot add cost.", leaves the Cost
\* collection as it is and leaves no handler behind that would insert later;
\* the collection grows only by the save of a handler that found its user.
C1_AbsentUserNotFound ==
    [][/\ \A body \in AddCostBodies :
            (PassesValidation(body) /\ UsersWithId(body.userid.value) = {} /\ addCost(body))
                => (resp' = NotFoundReply /\ costs' = costs /\ inflight' = inflight)
       /\ Len(costs') > Len(costs)
            => \E f \in Frames : /\ f.pc = "createCost.save"
                                 /\ inflight' = inflight (-) SetToBag({f})]_vars

\* the 404 was sent while the collection holds a document, and is unchanged
C1_Witness == resp = NotFoundReply /\ Len(costs) > 0

\* C2: a create-user whose id belongs to a stored User is answered 400
\* "User ID already exists." and leaves the User collection as it is.
C2_DuplicateIdConflict ==
    [][\A body \in AddUserBodies :
            (AllFieldsGiven(body) /\ UsersWithId(body.id.value) # {} /\ addUser(body))
                => (resp' = ConflictReply /\ users' = users /\ inflight' = inflight)]_vars

\* the 400 was sent for id 2, whose stored document differs from the request
\* (every request for id 2 carries the first name "A")
C2_Witness ==
    /\ resp = ConflictReply
    /\ \A u \in users : u.id = 2 /\ u.first_name = "C"
    /\ users # {}

FixedOrder == <<"food", "health", "housing", "sport", "education">>

\* cs is five single-key objects keyed by the categories in their fixed order
FiveKeyed(cs) ==
    /\ Len(cs) = 5
    /\ \A i \in 1..5 : DOMAIN cs[i] = {FixedOrder[i]}

\* cost is an expense of the user in the calendar month
InCalendarMonth(cost, userid, year, month) ==
    /\ cost.userid = userid
    /\ getFullYear(cost.date) = year
    /\ MonthOf(cost.date) = month

\* a successful report is in hand (the step that sent it left the store as
\* it was, so the collection is the one the report was made from)
ReportSent == resp.op = "getMonthlyReport" /\ resp.status = 200

\* the sequence the report holds for the i-th category
ListOf(report, i) == report.costs[i][FixedOrder[i]]

\* C5: the costs of a successful monthly report are five single-key objects
\* keyed food, health, housing, sport, education in that order, and a
\* category without a matching expense holds the empty sequence.
C5_FiveCategories ==
    ReportSent =>
        /\ FiveKeyed(resp.body.costs)
        /\ \A i \in 1..5 :
            (\A k \in CostIndex :
                ~(/\ InCalendarMonth(costs[k], resp.body.userid, resp.body.year,
                                     resp.body.month)
                  /\ costs[k].category = FixedOrder[i]))
                => ListOf(resp.body, i) = <<>>

\* a report of five empty sequences was sent while the collection holds an
\* expense
C5_Witness ==
    /\ ReportSent
    /\ \A i \in 1..5 : ListOf(resp.body, i) = <<>>
    /\ Len(costs) > 0

RECURSIVE SumAt(_)
SumAt(I) ==
    IF I = {} THEN 0
    ELSE LET i == CHOOSE j \in I : TRUE IN costs[i].sum + SumAt(I \ {i})

\* C6: the total of get-user-details is the sum of `sum` over the stored
\* expenses whose userid is the user's id, and is present (0 without any).
C6_UserTotal ==
    (resp.op = "getUserDetails" /\ resp.status = 200)
        => /\ "total" \in DOMAIN resp.body
           /\ resp.body.total = SumAt({i \in CostIndex : costs[i].userid = resp.body.id})

\* the details were sent while the collection holds an expense of the user
\* and one of another user
C6_Witness ==
    /\ resp.op = "getUserDetails"
    /\ resp.status = 200
    /\ \E i, j \in CostIndex :
        costs[i].userid = resp.body.id /\ costs[j].userid # resp.body.id

\* C10: the save of create-expense does not look at the User collection: when
\* the user found by the existence check is gone at the save, the save still
\* answers 201 and appends an expense whose userid resolves to no User.
C10_RaceNotGuarded ==
    [][\A f \in Frames :
            (/\ f.pc = "createCost.save"
             /\ UsersWithId(f.costData.userid.value) = {}
             /\ ~(Truthy(Field(f.costData, "date")) /\ ~CastsToDate(f.costData.date))
             /\ createCostSave(f))
                => /\ resp'.op = "addCost" /\ resp'.status = 201
                   /\ Len(costs') = Len(costs) + 1
                   /\ costs'[Len(costs')].userid = f.costData.userid.value
                   /\ \A u \in users' : u.id # f.costData.userid.value]_vars

\* a 201 was sent for an expense whose userid resolves to no User
C10_Witness ==
    /\ resp.op = "addCost"
    /\ resp.status = 201
    /\ UsersWithId(resp.body.userid) = {}
    /\ \E i \in CostIndex : costs[i].userid = resp.body.userid

\* the entry a report holds for an expense
Entry(cost) ==
    [sum |-> cost.sum, description |-> cost.description, day |-> getDate(cost.date)]

Included(report, cost) ==
    \E i \in 1..5 : \E j \in 1..Len(ListOf(report, i)) : ListOf(report, i)[j] = Entry(cost)

\* the instant t is on the first, or on the last, day of the calendar month
OnFirstDay(t, year, month) ==
    getFullYear(t) = year /\ MonthOf(t) = month /\ getDate(t) = 1

OnLastDay(t, year, month) ==
    getFullYear(t) = year /\ MonthOf(t) = month /\ getDate(t) = DaysInMonth(year, month)

\* C3: in a monthly report, an expense of the user dated on the first or on
\* the last calendar day of the month, whatever its time of day, is included,
\* and one dated the day before the first or the day after the last is not.
C3_BoundaryInclusive ==
    ReportSent =>
        \A k \in CostIndex :
            LET cost == costs[k]
                year == resp.body.year
                month == resp.body.month
            IN  cost.userid = resp.body.userid =>
                    /\ (OnFirstDay(cost.date, year, month) \/ OnLastDay(cost.date, year, month))
                            => Included(resp.body, cost)
                    /\ (\/ OnFirstDay(cost.date + TicksPerDay, year, month)
                        \/ OnLastDay(cost.date - TicksPerDay, year, month))
                            => ~Included(resp.body, cost)

\* C4: when create-expense with the date omitted has succeeded for a user
\* that create-user made, the monthly report of that user for the year and
\* month of the creation instant holds the expense's entry under its
\* category, and, the expense being the user's only one, the user's total is
\* its sum.
C4_EndToEnd ==
    (resp.op = "addCost" /\ resp.status = 201 /\ resp.body.date = now)
        => LET reply == monthlyReportReply(costs, now, Numeral(resp.body.userid),
                                           Numeral(getFullYear(now)), Numeral(MonthOf(now)))
               i == CHOOSE k \in 1..5 : FixedOrder[k] = resp.body.category
               total == aggregateTotal(resp.body.userid)
           IN  /\ reply.status = 200
               /\ \E j \in 1..Len(ListOf(reply.body, i)) :
                      ListOf(reply.body, i)[j] = [sum |-> resp.body.sum,
                                                  description |-> resp.body.description,
                                                  day |-> getDate(now)]
               /\ Cardinality({k \in CostIndex : costs[k].userid = resp.body.userid}) = 1
                      => (Len(total) = 1 /\ total[1].total = resp.body.sum)

\* C7: no step changes the id of a stored User document.
C7_IdImmutable ==
    [][\A u \in users : \A v \in users' : v._id = u._id => v.id = u.id]_vars

\* C8: no two stored Users share an id, and a create-user that does not
\* return 201 is rejected with 400.
C8_ConcurrentCreate ==
    /\ \A u, v \in users : u.id = v.id => u = v
    /\ resp.op = "addUser" => resp.status \in {201, 400}

\* C9: every stored expense has a category of the fixed set.
C9_CategoryClosed ==
    \A k \in CostIndex : \E i \in 1..5 : costs[k].category = FixedOrder[i]

\* the path names a user id
ValidId(userId) == userId # <<>> /\ ~isNaN(userId)

\* C11: a successful delete-user removes exactly the User record of that id
\* and leaves the Expense collection as it was, so every monthly report for
\* that id is the one it was before; get-user-details for an id without a
\* User record answers 404.
C11_NoCascade ==
    [][\A userId \in IdParams :
        /\ (removeUser(userId) /\ resp'.status = 200)
            => /\ Cardinality(UsersWithId(Number(userId))) = 1
               /\ users' = users \ UsersWithId(Number(userId))
               /\ costs' = costs
               /\ \A q \in ReportQueries :
                      q[1] = userId =>
                          monthlyReportReply(costs', now', q[1], q[2], q[3])
                              = monthlyReportReply(costs, now, q[1], q[2], q[3])
        /\ (getUserDetails(userId) /\ ValidId(userId) /\ UsersWithId(Number(userId)) = {})
            => resp' = Reply("getUserDetails", 404, [error |-> "User not found"])
      ]_vars

\* a report for the id of a deleted user that lists an expense
C11_Witness ==
    /\ ReportSent
    /\ resp.body.userid \in UserIds
    /\ UsersWithId(resp.body.userid) = {}
    /\ \E i \in 1..5 : ListOf(resp.body, i) # <<>>

\* v is a string with a character that is no white space
NonBlankString(v) ==
    /\ IsText(v)
    /\ \E i \in 1..Len(v.text) : v.text[i] \notin WhiteSpace

InFixedSet(v) ==
    /\ v.type = "string"
    /\ ~IsText(v)
    /\ v.value \in {"food", "health", "housing", "sport", "education"}

PositiveNumber(v) == v.type = "number" /\ v.value > 0

\* the first rule, in the order description, category, userId, sum, that the
\* fields break
FirstFailure(description, category, userid, sum) ==
    IF ~NonBlankString(description)
    THEN "Description is required and must be a string."
    ELSE IF ~InFixedSet(category)
    THEN "Category must be one of: food, health, housing, sport, education."
    ELSE IF ~PositiveNumber(userid)
    THEN "User ID must be a positive number."
    ELSE IF ~PositiveNumber(sum)
    THEN "Sum must be a positive number."
    ELSE "null"

\* C12: validateCostInput returns the message of the first rule that fails,
\* in the order description, category, userId, sum, and null when none does.
C12_FirstFailureWins ==
    resp.op = "validateCostInput"
        => resp.validationError
               = FirstFailure(resp.description, resp.category, resp.userid, resp.sum)

\* every rule but the first is broken, and the category's message is returned
C12_Witness ==
    /\ resp.op = "validateCostInput"
    /\ NonBlankString(resp.description)
    /\ ~InFixedSet(resp.category)
    /\ ~PositiveNumber(resp.userid)
    /\ ~PositiveNumber(resp.sum)
    /\ resp.validationError
           = "Category must be one of: food, health, housing, sport, education."

\* the body breaks a rule of the validation
FailsValidation(body) ==
    FirstFailure(Field(body, "description"), Field(body, "category"),
                 Field(body, "userid"), Field(body, "sum")) # "null"

\* C13: a create-expense whose body fails the validation is answered 400
\* with the validation's message, whether or not the user exists, in the
\* one step that takes the request: no store operation is awaited and both
\* collections stay as they were.
C13_RejectedBeforeStore ==
    [][\A body \in AddCostBodies :
        (FailsValidation(body) /\ addCost(body))
            => /\ resp'.op = "addCost"
               /\ resp'.status = 400
               /\ resp'.body = [error |-> FirstFailure(Field(body, "description"),
                                                       Field(body, "category"),
                                                       Field(body, "userid"),
                                                       Field(body, "sum"))]
               /\ inflight' = inflight
               /\ users' = users
               /\ costs' = costs
      ]_vars

\* an invalid expense was rejected while no user is stored
C13_Witness ==
    /\ resp.op = "addCost"
    /\ resp.status = 400
    /\ users = {}
    /\ inflight = EmptyBag

\* The operations on the user of one id, and on the expense of one ObjectId,
\* each with the store steps it makes.
UserOpsOn(id) ==
    <<[kind |-> "updateUser", id |-> id, data |-> [first_name |-> "C"]],
      [kind |-> "updateUser", id |-> id, data |-> [id |-> 2]],
      [kind |-> "deleteUser", id |-> id],
      [kind |-> "createUser", id |-> id, data |-> UserBody(id, "A")]>>

CostOpsOn(costId) ==
    <<[kind |-> "updateCost", id |-> costId, data |-> [category |-> "travel", sum |-> 5]],
      [kind |-> "deleteCost", id |-> costId]>>

StoreSteps(op) == IF op.kind = "createUser" THEN 2 ELSE 1

Pending == [status |-> 0, body |-> [pending |-> TRUE]]

\* the k-th store step of op, on the store st, by an operation whose result
\* so far is result: the store and the result after it
StoreStep(op, k, st, result) ==
    IF op.kind = "updateUser"
    THEN LET r == findOneAndUpdate(st.users, op.id, op.data)
         IN  [st |-> [st EXCEPT !.users = r.users],
              result |-> [status |-> r.status, body |-> r.body]]
    ELSE IF op.kind = "deleteUser"
    THEN LET r == findOneAndDelete(st.users, op.id)
         IN  [st |-> [st EXCEPT !.users = r.users],
              result |-> [status |-> r.status, body |-> r.body]]
    ELSE IF op.kind = "createUser"
    THEN IF k = 1
         THEN [st |-> st,
               result |-> IF \E u \in st.users : u.id = op.id
                          THEN [status |-> 400, body |-> [error |-> "User ID already exists."]]
                          ELSE Pending]
         ELSE IF result # Pending
         THEN [st |-> st, result |-> result]
         ELSE LET r == saveUser(st.users, op.data, NewOid({u._id : u \in st.users}))
              IN  [st |-> [st EXCEPT !.users = r.users],
                   result |-> [status |-> r.status, body |-> r.body]]
    ELSE IF op.kind = "updateCost"
    THEN LET r == findByIdAndUpdate(st.costs, op.id, op.data)
         IN  [st |-> [st EXCEPT !.costs = r.costs],
              result |-> [status |-> r.status, body |-> r.body]]
    ELSE LET r == findByIdAndDelete(st.costs, op.id)
         IN  [st |-> [st EXCEPT !.costs = r.costs],
              result |-> [status |-> r.status, body |-> r.body]]

\* the orders in which the store steps of a and b can interleave: the
\* sequences over {1, 2} that hold as many 1s as a has steps and as many 2s
\* as b has
Schedules(a, b) ==
    LET n == StoreSteps(a) + StoreSteps(b)
    IN  {s \in [1..n -> {1, 2}] :
            Cardinality({i \in 1..n : s[i] = 1}) = StoreSteps(a)}

\* the run of a and b in the order s from the configuration c
RECURSIVE RunFrom(_, _, _, _, _)
RunFrom(a, b, s, i, c) ==
    IF i > Len(s) THEN c
    ELSE IF s[i] = 1
    THEN LET r == StoreStep(a, c.ka + 1, c.st, c.ra)
         IN  RunFrom(a, b, s, i + 1, [c EXCEPT !.st = r.st, !.ra = r.result, !.ka = @ + 1])
    ELSE LET r == StoreStep(b, c.kb + 1, c.st, c.rb)
         IN  RunFrom(a, b, s, i + 1, [c EXCEPT !.st = r.st, !.rb = r.result, !.kb = @ + 1])

\* a document without its ObjectId, which the store picks
Content(doc) == [k \in DOMAIN doc \ {"_id"} |-> doc[k]]

\* what a run leaves: the documents of both collections and both results
Outcome(a, b, s) ==
    LET c == RunFrom(a, b, s, 1, [st |-> [users |-> users, costs |-> costs],
                                  ra |-> Pending, rb |-> Pending, ka |-> 0, kb |-> 0])
    IN  [users |-> {Content(u) : u \in c.st.users},
         costs |-> [i \in 1..Len(c.st.costs) |-> Content(c.st.costs[i])],
         ra |-> [status |-> c.ra.status, body |-> Content(c.ra.body)],
         rb |-> [status |-> c.rb.status, body |-> Content(c.rb.body)]]

Commute(a, b) ==
    \A s, t \in Schedules(a, b) : Outcome(a, b, s) = Outcome(a, b, t)

\* C14: from every reachable store, two operations on users of different
\* ids, or on expenses of different ObjectIds, leave the same documents and
\* return the same results in whichever order their store steps interleave.
C14_DifferentIdsCommute ==
    /\ \A i, j \in UserIds :
           i # j => \A m \in 1..Len(UserOpsOn(i)), n \in 1..Len(UserOpsOn(j)) :
                        Commute(UserOpsOn(i)[m], UserOpsOn(j)[n])
    /\ \A c, d \in 1..MaxCosts :
           c # d => \A m \in 1..Len(CostOpsOn(c)), n \in 1..Len(CostOpsOn(d)) :
                        Commute(CostOpsOn(c)[m], CostOpsOn(d)[n])

\* the j-th least number of the set K
Nth(K, j) == CHOOSE k \in K : Cardinality({x \in K : x < k}) = j - 1

\* the expenses the report's query fetches: those of the user dated from
\* the start date to the end date that fetchMonthlyReport computes
Fetched(userid, year, month) ==
    {k \in CostIndex :
        /\ costs[k].userid = userid
        /\ costs[k].date >= NewDate(year, month - 1, 1)
        /\ costs[k].date <= NewDate(year, month, 0)}

\* C15: in a successful monthly report the list of each category holds, in
\* the order of the collection, one entry {sum, description, day} for each
\* fetched expense of that category and nothing else; every fetched expense
\* is of one of the five categories, of the user and of the calendar month.
C15_EntriesExact ==
    ReportSent =>
        LET F == Fetched(resp.body.userid, resp.body.year, resp.body.month)
        IN  /\ \A k \in F :
                   /\ \E i \in 1..5 : costs[k].category = FixedOrder[i]
                   /\ InCalendarMonth(costs[k], resp.body.userid, resp.body.year,
                                      resp.body.month)
            /\ \A i \in 1..5 :
                   LET K == {k \in F : costs[k].category = FixedOrder[i]}
                       list == ListOf(resp.body, i)
                   IN  /\ Len(list) = Cardinality(K)
                       /\ \A j \in 1..Len(list) : list[j] = Entry(costs[Nth(K, j)])

\* a report with two different entries in one category
C15_Witness ==
    /\ ReportSent
    /\ \E i \in 1..5 :
           /\ Len(ListOf(resp.body, i)) = 2
           /\ ListOf(resp.body, i)[1] # ListOf(resp.body, i)[2]

\* the query names a user id, a year from MinYear to the current one and a
\* month from 1 to 12
ValidQuery(q) ==
    /\ ValidId(q[1])
    /\ q[2] # <<>> /\ ~isNaN(q[2])
    /\ Number(q[2]) >= MinYear /\ Number(q[2]) <= getFullYear(now)
    /\ q[3] # <<>> /\ ~isNaN(q[3])
    /\ Number(q[3]) >= 1 /\ Number(q[3]) <= 12

\* C16: in every reachable state a monthly report request with a valid id,
\* year and month is answered 200.
C16_ReportNeverFails ==
    \A q \in ReportQueries :
        ValidQuery(q) => monthlyReportReply(costs, now, q[1], q[2], q[3]).status = 200

====
